---- MODULE Spec2Model ----
(***************************************************************************)
(* Model of sarvam_client.py: the sentence chunker (_chunk_text), the      *)
(* transcription pipeline (transcribe_audio), the analysis normaliser      *)
(* (tail of analyse_transcript) and the speech synthesis pipeline          *)
(* (text_to_speech).                                                       *)
(*                                                                         *)
(* Text is a sequence of one-character strings.  Durations are integers    *)
(* counted in ticks, TicksPerSecond ticks to the second, so that a         *)
(* duration that is not a whole number of seconds can be represented.      *)
(***************************************************************************)
EXTENDS Integers, Sequences, FiniteSets, TLC

\* ---------------------------------------------------------------- bounds
MaxLen == 5
MaxChars == 3
TtsMaxLen == 5
\* text_to_speech passes max_chars=500 to _chunk_text; the model scales the
\* limit down so that texts of at most TtsMaxLen characters span several chunks
TtsMaxChars == 2
MaxRawLen == 3
TicksPerSecond == 2
MaxProbeSeconds == 62
MaxKeyLen == 2
MaxCalls == 2

\* ---------------------------------------------------- program constants
CHUNK_SECONDS == 25
MAX_DURATION == 60
DIRECT_LIMIT == 30

VARIABLES
    \* _chunk_text / text_to_speech
    text, max_chars, chunks, cpc,
    tpc, segments, ttsLog, ttsIdx, ttsError, outputFile,
    \* transcribe_audio
    pc, probed, duration, language_code, truncated, trimmed_path, fileLen,
    files, starts, idx, windows, sttLog, transcripts, detected_lang,
    pending, outcome, cleanupFailed,
    \* analyse_transcript
    content, analysis, apc,
    \* the API key: process environment (main.py) and client module global
    envKey, clientKey, keySet, apiCalls, lastStatus

chunkVars == <<text, max_chars, chunks, cpc>>
ttsVars == <<tpc, segments, ttsLog, ttsIdx, ttsError, outputFile>>
trVars == <<pc, probed, duration, language_code, truncated, trimmed_path,
            fileLen, files, starts, idx, windows, sttLog, transcripts,
            detected_lang, pending, outcome, cleanupFailed>>
anVars == <<content, analysis, apc>>
keyVars == <<envKey, clientKey, keySet, apiCalls, lastStatus>>
vars == <<chunkVars, ttsVars, trVars, anVars, keyVars>>

\* ------------------------------------------------------------ characters
Alphabet == {"a", ".", " "}
\* "|" stands for the Devanagari full stop (danda, U+0964)
Punct == {".", "!", "?", "|"}
IsSpace(c) == c = " "

SeqsUpTo(S, n) == UNION {[1..k -> S] : k \in 0..n}
Texts == SeqsUpTo(Alphabet, MaxLen)

Min(a, b) == IF a <= b THEN a ELSE b

\* str.strip()
RECURSIVE lstrip(_)
lstrip(s) == IF s # <<>> /\ IsSpace(Head(s)) THEN lstrip(Tail(s)) ELSE s

RECURSIVE rstrip(_)
rstrip(s) ==
    IF s # <<>> /\ IsSpace(s[Len(s)]) THEN rstrip(SubSeq(s, 1, Len(s) - 1)) ELSE s

strip(s) == rstrip(lstrip(s))

\* ------------------------------------------------------------ _chunk_text
\* First position of a match of (?<=[.!?|])\s+ : a whitespace character
\* directly preceded by sentence punctuation; 0 when there is none.
MatchStart(t) ==
    LET cand == {i \in 2..Len(t) : IsSpace(t[i]) /\ t[i - 1] \in Punct}
    IN  IF cand = {} THEN 0 ELSE CHOOSE i \in cand : \A j \in cand : i <= j

\* Last position of the greedy \s+ match that starts at position i.
RECURSIVE MatchEnd(_, _)
MatchEnd(t, i) ==
    IF i < Len(t) /\ IsSpace(t[i + 1]) THEN MatchEnd(t, i + 1) ELSE i

\* re.split(r"(?<=[.!?|])\s+", text)
RECURSIVE re_split(_)
re_split(t) ==
    LET i == MatchStart(t)
    IN  IF i = 0 THEN <<t>>
        ELSE <<SubSeq(t, 1, i - 1)>> \o re_split(SubSeq(t, MatchEnd(t, i) + 1, Len(t)))

\* for i in range(0, len(sentence), max_chars): sentence[i : i + max_chars]
RECURSIVE HardSplit(_, _)
HardSplit(s, m) ==
    IF s = <<>> THEN <<>>
    ELSE <<SubSeq(s, 1, Min(m, Len(s)))>> \o HardSplit(SubSeq(s, Min(m, Len(s)) + 1, Len(s)), m)

\* faulty variants: the packing test forgets the joining space; the packing
\* step forgets the accumulator
FitsNoSeparator(current, sentence, m) == Len(current) + Len(sentence) <= m
PackOverwrite(current, sentence) == strip(sentence)

\* len(current) + len(sentence) + 1 <= max_chars
Fits(current, sentence, m) == Len(current) + Len(sentence) + 1 <= m

\* (current + " " + sentence).strip()
Pack(current, sentence) == strip(current \o <<" ">> \o sentence)

Flush(out, current) == IF current # <<>> THEN Append(out, current) ELSE out

RECURSIVE ChunkLoop(_, _, _, _, _)
ChunkLoop(sentences, i, out, current, m) ==
    IF i > Len(sentences) THEN Flush(out, current)
    ELSE LET sentence == sentences[i]
         IN  IF Fits(current, sentence, m)
             THEN ChunkLoop(sentences, i + 1, out, Pack(current, sentence), m)
             ELSE IF Len(sentence) > m
                  THEN ChunkLoop(sentences, i + 1,
                                 Flush(out, current) \o HardSplit(sentence, m), <<>>, m)
                  ELSE ChunkLoop(sentences, i + 1, Flush(out, current), sentence, m)

_chunk_text(t, m) ==
    IF Len(t) <= m THEN <<t>> ELSE ChunkLoop(re_split(t), 1, <<>>, <<>>, m)

\* ------------------------------------------------- values of idle variables
NoFile == [exists |-> FALSE, audio |-> <<>>]
NoOutcome ==
    [kind |-> "none", transcript |-> <<>>, language_code |-> "", truncated |-> FALSE,
     error |-> ""]
NoAnalysis == [kind |-> "none", keys |-> {}, raw |-> <<>>]

ChunkIdle == text = <<>> /\ max_chars = 1 /\ chunks = <<>> /\ cpc = "idle"

TtsIdle ==
    /\ tpc = "idle" /\ segments = <<>> /\ ttsLog = <<>> /\ ttsIdx = 1
    /\ ttsError = FALSE /\ outputFile = NoFile

TrDefaults ==
    /\ probed = 0 /\ duration = 0 /\ truncated = FALSE /\ trimmed_path = FALSE
    /\ fileLen = 0 /\ files = {} /\ starts = <<>> /\ idx = 1 /\ windows = <<>>
    /\ sttLog = <<>> /\ transcripts = <<>> /\ detected_lang = ""
    /\ pending = NoOutcome /\ outcome = NoOutcome /\ cleanupFailed = FALSE

TrIdle == pc = "idle" /\ language_code = "en-IN" /\ TrDefaults

AnIdle == content = <<>> /\ analysis = NoAnalysis /\ apc = "idle"

KeyIdle ==
    /\ envKey = <<>> /\ clientKey = <<>> /\ keySet = FALSE /\ apiCalls = <<>>
    /\ lastStatus = "none"

\* --------------------------------------------- specification: _chunk_text
ChunkInit ==
    /\ text \in Texts
    /\ max_chars \in 1..MaxChars
    /\ chunks = <<>>
    /\ cpc = "start"
    /\ TtsIdle /\ TrIdle /\ AnIdle /\ KeyIdle

ChunkCall ==
    /\ cpc = "start"
    /\ chunks' = _chunk_text(text, max_chars)
    /\ cpc' = "done"
    /\ UNCHANGED <<text, max_chars, ttsVars, trVars, anVars, keyVars>>

ChunkNext == ChunkCall

SpecChunk == ChunkInit /\ [][ChunkNext]_vars

\* ------------------------------------------ specification: text_to_speech
TtsTexts == SeqsUpTo(Alphabet, TtsMaxLen)

\* decoded WAV payloads the text-to-speech service may return
Audio == {<<"x">>, <<"y", "y">>}
Failed == <<"failed">>

\* combined = segments[0]; for seg in segments[1:]: combined += seg
RECURSIVE Combine(_)
Combine(segs) ==
    IF segs = <<>> THEN <<>>
    ELSE IF Len(segs) = 1 THEN segs[1]
    ELSE Combine(SubSeq(segs, 1, Len(segs) - 1)) \o segs[Len(segs)]

\* faulty variant: a failed request is skipped instead of raised
OnTtsErrorContinue == "loop"

\* resp.raise_for_status() raises out of the loop and out of the call
OnTtsError == "done"

TtsInit ==
    /\ text \in TtsTexts
    /\ max_chars = TtsMaxChars
    /\ chunks = <<>>
    /\ cpc = "idle"
    /\ tpc = "start" /\ segments = <<>> /\ ttsLog = <<>> /\ ttsIdx = 1
    /\ ttsError = FALSE /\ outputFile = NoFile
    /\ TrIdle /\ AnIdle /\ KeyIdle

TtsChunk ==
    /\ tpc = "start"
    /\ chunks' = _chunk_text(text, max_chars)
    /\ segments' = <<>>
    /\ ttsIdx' = 1
    /\ tpc' = "loop"
    /\ UNCHANGED <<text, max_chars, cpc, ttsLog, ttsError, outputFile, trVars, anVars, keyVars>>

TtsRequestOk ==
    /\ tpc = "loop"
    /\ ttsIdx <= Len(chunks)
    /\ \E audio \in Audio :
          /\ ttsLog' = Append(ttsLog, [chunk |-> chunks[ttsIdx], audio |-> audio])
          /\ segments' = Append(segments, audio)
    /\ ttsIdx' = ttsIdx + 1
    /\ UNCHANGED <<text, max_chars, chunks, cpc, tpc, ttsError, outputFile, trVars, anVars, keyVars>>

TtsRequestFail ==
    /\ tpc = "loop"
    /\ ttsIdx <= Len(chunks)
    /\ ttsLog' = Append(ttsLog, [chunk |-> chunks[ttsIdx], audio |-> Failed])
    /\ ttsError' = TRUE
    /\ ttsIdx' = ttsIdx + 1
    /\ tpc' = OnTtsError
    /\ UNCHANGED <<text, max_chars, chunks, cpc, segments, outputFile, trVars, anVars, keyVars>>

TtsExport ==
    /\ tpc = "loop"
    /\ ttsIdx > Len(chunks)
    /\ outputFile' = [exists |-> TRUE, audio |-> Combine(segments)]
    /\ tpc' = "done"
    /\ UNCHANGED <<text, max_chars, chunks, cpc, segments, ttsLog, ttsIdx, ttsError,
                   trVars, anVars, keyVars>>

TtsNext == TtsChunk \/ TtsRequestOk \/ TtsRequestFail \/ TtsExport

SpecTts == TtsInit /\ [][TtsNext]_vars

\* ---------------------------------------- specification: transcribe_audio
Durations == 0..(MaxProbeSeconds * TicksPerSecond)
Hints == {"en-IN", "hi-IN"}
\* resp.transcript or "": what one speech-to-text call yields
SttTexts == {<<>>, <<"a">>, <<"b">>}
\* resp.language_code; "" stands for None and for the empty string, both falsy
Langs == {"", "hi-IN", "ta-IN"}

Seconds(n) == n * TicksPerSecond

\* int(duration)
IntSeconds(d) == d \div TicksPerSecond

\* list(range(a, b, step))
RECURSIVE Range(_, _, _)
Range(a, b, step) == IF a >= b THEN <<>> ELSE <<a>> \o Range(a + step, b, step)

\* " ".join(transcripts)
RECURSIVE JoinSpace(_)
JoinSpace(ts) ==
    IF ts = <<>> THEN <<>>
    ELSE IF Len(ts) = 1 THEN ts[1]
    ELSE ts[1] \o <<" ">> \o JoinSpace(Tail(ts))

Returned(t, l, tr) ==
    [kind |-> "return", transcript |-> t, language_code |-> l, truncated |-> tr,
     error |-> ""]
Raised(e) ==
    [kind |-> "error", transcript |-> <<>>, language_code |-> "", truncated |-> FALSE,
     error |-> e]

TrimmedFile == <<"trimmed", 0>>
ChunkFile(i) == <<"chunk", i>>

\* faulty variants: every window's text is appended; the last detection wins;
\* the trimmed clip is left behind
AppendAlways(ts, t) == Append(ts, t)
UpdateLangLastWins(detected, lang) == IF lang # "" THEN lang ELSE detected
UnlinkNever(path, fs) == fs

\* if text: transcripts.append(text)
AppendTranscript(ts, t) == IF t # <<>> THEN Append(ts, t) ELSE ts

\* if not detected_lang and lang: detected_lang = lang
UpdateLang(detected, lang) == IF detected = "" /\ lang # "" THEN lang ELSE detected

\* lang or language_code
OrHint(lang, hint) == IF lang # "" THEN lang ELSE hint

\* leaving "with tempfile.TemporaryDirectory()": the directory and the
\* excerpts in it are removed
RemoveChunks(fs) == {f \in fs : f[1] # "chunk"}

\* if trimmed_path: Path(trimmed_path).unlink(missing_ok=True)
Unlink(path, fs) == IF path THEN fs \ {TrimmedFile} ELSE fs

\* ffmpeg -ss start -t CHUNK_SECONDS: the excerpt ends after CHUNK_SECONDS or
\* where the input ends
WindowLength(start, len) == Min(Seconds(CHUNK_SECONDS), len - Seconds(start))

TrInit ==
    /\ pc = "probe"
    /\ language_code \in Hints
    /\ TrDefaults
    /\ ChunkIdle /\ TtsIdle /\ AnIdle /\ KeyIdle

notTr == <<chunkVars, ttsVars, anVars, keyVars>>

\* duration = get_audio_duration(audio_path); truncated = duration > MAX_DURATION
Probe ==
    /\ pc = "probe"
    /\ \E d \in Durations :
          /\ probed' = d
          /\ duration' = d
          /\ fileLen' = d
          /\ truncated' = (d > Seconds(MAX_DURATION))
          /\ pc' = IF d > Seconds(MAX_DURATION) THEN "trim" ELSE "branch"
    /\ trimmed_path' = FALSE
    /\ UNCHANGED <<language_code, files, starts, idx, windows, sttLog, transcripts,
                   detected_lang, pending, outcome, cleanupFailed, notTr>>

\* ffprobe fails (check=True) before the try block is entered
ProbeFail ==
    /\ pc = "probe"
    /\ pending' = Raised("probe")
    /\ outcome' = Raised("probe")
    /\ pc' = "done"
    /\ UNCHANGED <<probed, duration, language_code, truncated, trimmed_path, fileLen,
                   files, starts, idx, windows, sttLog, transcripts, detected_lang,
                   cleanupFailed, notTr>>

TrimOk ==
    /\ pc = "trim"
    /\ files' = files \cup {TrimmedFile}
    /\ trimmed_path' = TRUE
    /\ fileLen' = Seconds(MAX_DURATION)
    /\ duration' = Seconds(MAX_DURATION)
    /\ pc' = "branch"
    /\ UNCHANGED <<probed, language_code, truncated, starts, idx, windows, sttLog,
                   transcripts, detected_lang, pending, outcome, cleanupFailed, notTr>>

\* the temporary file exists and is named before ffmpeg runs and fails
TrimFail ==
    /\ pc = "trim"
    /\ files' = files \cup {TrimmedFile}
    /\ trimmed_path' = TRUE
    /\ pending' = Raised("trim")
    /\ pc' = "finally"
    /\ UNCHANGED <<probed, duration, language_code, truncated, fileLen, starts, idx,
                   windows, sttLog, transcripts, detected_lang, outcome, cleanupFailed,
                   notTr>>

DirectOk ==
    /\ pc = "branch"
    /\ duration <= Seconds(DIRECT_LIMIT)
    /\ \E t \in SttTexts, l \in Langs :
          /\ sttLog' = Append(sttLog, [start |-> 0, ok |-> TRUE, text |-> t, lang |-> l])
          /\ pending' = Returned(t, OrHint(l, language_code), truncated)
    /\ pc' = "finally"
    /\ UNCHANGED <<probed, duration, language_code, truncated, trimmed_path, fileLen,
                   files, starts, idx, windows, transcripts, detected_lang, outcome,
                   cleanupFailed, notTr>>

DirectFail ==
    /\ pc = "branch"
    /\ duration <= Seconds(DIRECT_LIMIT)
    /\ sttLog' = Append(sttLog, [start |-> 0, ok |-> FALSE, text |-> <<>>, lang |-> ""])
    /\ pending' = Raised("stt")
    /\ pc' = "finally"
    /\ UNCHANGED <<probed, duration, language_code, truncated, trimmed_path, fileLen,
                   files, starts, idx, windows, transcripts, detected_lang, outcome,
                   cleanupFailed, notTr>>

\* starts = list(range(0, int(duration), CHUNK_SECONDS)); the directory is made
Plan ==
    /\ pc = "branch"
    /\ duration > Seconds(DIRECT_LIMIT)
    /\ starts' = Range(0, IntSeconds(duration), CHUNK_SECONDS)
    /\ transcripts' = <<>>
    /\ detected_lang' = ""
    /\ idx' = 1
    /\ pc' = "loop"
    /\ UNCHANGED <<probed, duration, language_code, truncated, trimmed_path, fileLen,
                   files, windows, sttLog, pending, outcome, cleanupFailed, notTr>>

ExtractOk ==
    /\ pc = "loop"
    /\ idx <= Len(starts)
    /\ files' = files \cup {ChunkFile(idx)}
    /\ windows' = Append(windows, [start |-> Seconds(starts[idx]),
                                   length |-> WindowLength(starts[idx], fileLen)])
    /\ pc' = "stt"
    /\ UNCHANGED <<probed, duration, language_code, truncated, trimmed_path, fileLen,
                   starts, idx, sttLog, transcripts, detected_lang, pending, outcome,
                   cleanupFailed, notTr>>

\* ffmpeg fails on a window; it may or may not have left an output file
ExtractFail ==
    /\ pc = "loop"
    /\ idx <= Len(starts)
    /\ \E created \in BOOLEAN :
          files' = IF created THEN files \cup {ChunkFile(idx)} ELSE files
    /\ pending' = Raised("extract")
    /\ pc' = "exitdir"
    /\ UNCHANGED <<probed, duration, language_code, truncated, trimmed_path, fileLen,
                   starts, idx, windows, sttLog, transcripts, detected_lang, outcome,
                   cleanupFailed, notTr>>

SttOk ==
    /\ pc = "stt"
    /\ \E t \in SttTexts, l \in Langs :
          /\ sttLog' = Append(sttLog, [start |-> starts[idx], ok |-> TRUE,
                                       text |-> t, lang |-> l])
          /\ transcripts' = AppendTranscript(transcripts, t)
          /\ detected_lang' = UpdateLang(detected_lang, l)
    /\ idx' = idx + 1
    /\ pc' = "loop"
    /\ UNCHANGED <<probed, duration, language_code, truncated, trimmed_path, fileLen,
                   files, starts, windows, pending, outcome, cleanupFailed, notTr>>

SttFail ==
    /\ pc = "stt"
    /\ sttLog' = Append(sttLog, [start |-> starts[idx], ok |-> FALSE,
                                 text |-> <<>>, lang |-> ""])
    /\ pending' = Raised("stt")
    /\ pc' = "exitdir"
    /\ UNCHANGED <<probed, duration, language_code, truncated, trimmed_path, fileLen,
                   files, starts, idx, windows, transcripts, detected_lang, outcome,
                   cleanupFailed, notTr>>

\* the with block is left, after the loop or by an exception; then the return
\* statement is evaluated, or the exception travels on
ExitDir ==
    /\ \/ pc = "exitdir"
       \/ pc = "loop" /\ idx > Len(starts)
    /\ files' = RemoveChunks(files)
    /\ pending' = IF pc = "exitdir" THEN pending
                  ELSE Returned(JoinSpace(transcripts),
                                OrHint(detected_lang, language_code), truncated)
    /\ pc' = "finally"
    /\ UNCHANGED <<probed, duration, language_code, truncated, trimmed_path, fileLen,
                   starts, idx, windows, sttLog, transcripts, detected_lang, outcome,
                   cleanupFailed, notTr>>

\* removing the temporary directory fails: TemporaryDirectory raises
ExitDirFail ==
    /\ \/ pc = "exitdir"
       \/ pc = "loop" /\ idx > Len(starts)
    /\ cleanupFailed' = TRUE
    /\ pending' = Raised("rmtree")
    /\ pc' = "finally"
    /\ UNCHANGED <<probed, duration, language_code, truncated, trimmed_path, fileLen,
                   files, starts, idx, windows, sttLog, transcripts, detected_lang,
                   outcome, notTr>>

\* finally: the trimmed clip is unlinked and the pending outcome takes effect
Finally ==
    /\ pc = "finally"
    /\ files' = Unlink(trimmed_path, files)
    /\ outcome' = pending
    /\ pc' = "done"
    /\ UNCHANGED <<probed, duration, language_code, truncated, trimmed_path, fileLen,
                   starts, idx, windows, sttLog, transcripts, detected_lang, pending,
                   cleanupFailed, notTr>>

\* unlink(missing_ok=True) raises an OSError other than FileNotFoundError:
\* nothing catches it, so it replaces the pending outcome
FinallyUnlinkFail ==
    /\ pc = "finally"
    /\ trimmed_path
    /\ cleanupFailed' = TRUE
    /\ outcome' = Raised("unlink")
    /\ pc' = "done"
    /\ UNCHANGED <<probed, duration, language_code, truncated, trimmed_path, fileLen,
                   files, starts, idx, windows, sttLog, transcripts, detected_lang,
                   pending, notTr>>

TrNext ==
    \/ Probe \/ ProbeFail \/ TrimOk \/ TrimFail \/ DirectOk \/ DirectFail \/ Plan
    \/ ExtractOk \/ ExtractFail \/ SttOk \/ SttFail \/ ExitDir \/ ExitDirFail
    \/ Finally \/ FinallyUnlinkFail

SpecTranscribe == TrInit /\ [][TrNext]_vars

\* -------------------------------------- specification: analyse_transcript
\* A model output is a sequence of tokens: the fence marker, the language tag,
\* whitespace, a JSON document of one of three kinds, or text that is no JSON.
\* the token FENCE stands for the three backquotes of a markdown code fence
Fence == "FENCE"
JsonTag == "json"
JsonDocs == {"FULL", "PART", "LIST"}
RawTokens == {Fence, JsonTag, " ", "x"} \cup JsonDocs
RawOutputs == SeqsUpTo(RawTokens, MaxRawLen)

SixFields ==
    {"summary", "language_detected", "key_entities", "topics", "tone", "tone_explanation"}

\* str.startswith
startswith(s, tok) == s # <<>> /\ s[1] = tok

FenceAt(s) ==
    LET at == {i \in 1..Len(s) : s[i] = Fence}
    IN  IF at = {} THEN 0 ELSE CHOOSE i \in at : \A j \in at : i <= j

\* clean.split(fence marker)
RECURSIVE split_fence(_)
split_fence(s) ==
    LET i == FenceAt(s)
    IN  IF i = 0 THEN <<s>>
        ELSE <<SubSeq(s, 1, i - 1)>> \o split_fence(SubSeq(s, i + 1, Len(s)))

\* the fence is stripped when the text starts with one
StripFence(raw) ==
    IF startswith(raw, Fence)
    THEN LET inner == split_fence(raw)[2]
         IN  strip(IF startswith(inner, JsonTag) THEN Tail(inner) ELSE inner)
    ELSE raw

\* what json.loads returns for each kind of document
JsonValue(doc) ==
    IF doc = "FULL" THEN [kind |-> "dict", keys |-> SixFields, raw |-> <<>>]
    ELSE IF doc = "PART" THEN [kind |-> "dict", keys |-> {"summary", "tone"}, raw |-> <<>>]
    ELSE [kind |-> "list", keys |-> {}, raw |-> <<>>]

\* json.loads accepts one document, whitespace around it allowed
Parses(clean) == Len(strip(clean)) = 1 /\ strip(clean)[1] \in JsonDocs

Fallback(raw) == [kind |-> "dict", keys |-> {"raw_analysis"}, raw |-> raw]

\* try: return json.loads(clean) / except JSONDecodeError: {"raw_analysis": raw}
Normalized(c) ==
    LET raw == strip(c)
        clean == StripFence(raw)
    IN  IF Parses(clean) THEN JsonValue(strip(clean)[1]) ELSE Fallback(raw)

AnInit ==
    /\ content \in RawOutputs
    /\ analysis = NoAnalysis
    /\ apc = "start"
    /\ ChunkIdle /\ TtsIdle /\ TrIdle /\ KeyIdle

Normalize ==
    /\ apc = "start"
    /\ analysis' = Normalized(content)
    /\ apc' = "done"
    /\ UNCHANGED <<content, chunkVars, ttsVars, trVars, keyVars>>

AnNext == Normalize

SpecAnalyse == AnInit /\ [][AnNext]_vars

\* ------------------------------------------ specification: the API key
\* main.py keeps the key in the process environment; sarvam_client copies it
\* into the module global SARVAM_API_KEY once, when it is imported.
KeyChars == {"p", "q", " "}
KeyBodies == SeqsUpTo(KeyChars, MaxKeyLen)

\* the key each client helper hands to the service: the module global
_sarvam == clientKey
_llm == clientKey
_headers == clientKey

\* one external call, with the key it carries and the environment's key then
ApiCall(capability, key) ==
    [capability |-> capability, key |-> key, env |-> envKey, afterSet |-> keySet]

\* The process is up: "import sarvam_client" has read os.environ["SARVAM_API_KEY"]
\* (a KeyError, and no process, when the variable is absent; it may be empty).
KeyInit ==
    /\ envKey \in KeyBodies
    /\ clientKey = envKey
    /\ keySet = FALSE
    /\ apiCalls = <<>>
    /\ lastStatus = "none"
    /\ ChunkIdle /\ TtsIdle /\ TrIdle /\ AnIdle

notKey == <<chunkVars, ttsVars, trVars, anVars>>

\* POST /api/set-key with a non-blank key: os.environ is updated, nothing else
SetKeyOk ==
    /\ \E body \in KeyBodies :
          /\ strip(body) # <<>>
          /\ envKey' = strip(body)
    /\ keySet' = TRUE
    /\ lastStatus' = "204"
    /\ UNCHANGED <<clientKey, apiCalls, notKey>>

\* POST /api/set-key with a blank key
SetKeyBlank ==
    /\ \E body \in KeyBodies : strip(body) = <<>>
    /\ lastStatus' = "422"
    /\ UNCHANGED <<envKey, clientKey, keySet, apiCalls, notKey>>

\* GET /api/key-status
KeyStatus ==
    /\ lastStatus' = IF envKey # <<>> THEN "configured" ELSE "unconfigured"
    /\ UNCHANGED <<envKey, clientKey, keySet, apiCalls, notKey>>

\* _require_api_key: no key in the environment
RequestRejected ==
    /\ envKey = <<>>
    /\ lastStatus' = "503"
    /\ UNCHANGED <<envKey, clientKey, keySet, apiCalls, notKey>>

\* POST /api/analyse: speech-to-text, then the analysis
Analyse ==
    /\ envKey # <<>>
    /\ Len(apiCalls) + 2 <= MaxCalls
    /\ apiCalls' = apiCalls \o <<ApiCall("stt", _sarvam), ApiCall("analysis", _llm)>>
    /\ lastStatus' = "200"
    /\ UNCHANGED <<envKey, clientKey, keySet, notKey>>

\* POST /api/analyse with a blank transcript: only speech-to-text is called
AnalyseUnintelligible ==
    /\ envKey # <<>>
    /\ Len(apiCalls) + 1 <= MaxCalls
    /\ apiCalls' = Append(apiCalls, ApiCall("stt", _sarvam))
    /\ lastStatus' = "422"
    /\ UNCHANGED <<envKey, clientKey, keySet, notKey>>

\* POST /api/translate-and-speak: translation, then text-to-speech
TranslateAndSpeak ==
    /\ envKey # <<>>
    /\ Len(apiCalls) + 2 <= MaxCalls
    /\ apiCalls' = apiCalls \o <<ApiCall("translate", _headers), ApiCall("tts", _headers)>>
    /\ lastStatus' = "200"
    /\ UNCHANGED <<envKey, clientKey, keySet, notKey>>

KeyNext ==
    \/ SetKeyOk \/ SetKeyBlank \/ KeyStatus \/ RequestRejected
    \/ Analyse \/ AnalyseUnintelligible \/ TranslateAndSpeak

SpecKey == KeyInit /\ [][KeyNext]_vars

\* ================================================================ claims
RECURSIVE Flatten(_)
Flatten(ss) == IF ss = <<>> THEN <<>> ELSE Head(ss) \o Flatten(Tail(ss))

NonSpace(s) == SelectSeq(s, LAMBDA c : ~IsSpace(c))

HasSpace(s) == \E i \in DOMAIN s : IsSpace(s[i])

\* the chunks joined with seps[i] between chunk i and chunk i + 1
RECURSIVE JoinWith(_, _, _)
JoinWith(ss, seps, i) ==
    IF i > Len(ss) THEN <<>>
    ELSE IF i = Len(ss) THEN ss[i]
    ELSE ss[i] \o seps[i] \o JoinWith(ss, seps, i + 1)

\* C1: every chunk _chunk_text returns is at most max_chars long, whichever
\* branch produced it.
ChunksWithinBudget ==
    cpc = "done" => \A i \in DOMAIN chunks : Len(chunks[i]) <= max_chars

\* a text longer than the budget, split into several chunks, one of them packed
\* from two sentences with the joining space and exactly max_chars long
ChunksWithinBudgetWitness ==
    /\ cpc = "done"
    /\ Len(text) > max_chars
    /\ Len(chunks) >= 2
    /\ \E i \in DOMAIN chunks : Len(chunks[i]) = max_chars /\ HasSpace(chunks[i])

\* C2 as stated: the chunks, joined by nothing or by a single space at each
\* chunk boundary, reproduce the text character for character.
ChunksReproduceText ==
    cpc = "done" =>
        \E seps \in [1..(Len(chunks) - 1) -> {<<>>, <<" ">>}] :
            JoinWith(chunks, seps, 1) = text

\* C2 as amended: the characters of the text that are not whitespace are all
\* in the chunks, in the order of the text, and the chunks hold no others.
ChunksKeepNonSpace ==
    cpc = "done" => NonSpace(Flatten(chunks)) = NonSpace(text)

\* a text over the budget with a run of two spaces after a sentence end, of
\* which the chunks keep at most one
ChunksKeepNonSpaceWitness ==
    /\ cpc = "done"
    /\ Len(text) > max_chars
    /\ \E i \in 1..(Len(text) - 3) :
          text[i] \in Punct /\ IsSpace(text[i + 1]) /\ IsSpace(text[i + 2])
          /\ ~IsSpace(text[i + 3])
    /\ Len(chunks) >= 2
    /\ \A i \in DOMAIN chunks : NonSpace(chunks[i]) # <<>>

EffectiveDuration == Min(probed, Seconds(MAX_DURATION))

Segmented == EffectiveDuration > Seconds(DIRECT_LIMIT)

RECURSIVE SumLengths(_)
SumLengths(ws) == IF ws = <<>> THEN 0 ELSE Head(ws).length + SumLengths(Tail(ws))

CeilDiv(a, b) == (a + b - 1) \div b

\* C3: in the segmented path the windows start at 0, CHUNK_SECONDS, ..., each
\* begins where the one before ends, and their lengths add up to the effective
\* duration, also for a duration that is no whole number of seconds.
WindowsCoverEffectiveDuration ==
    (pc = "done" /\ outcome.kind = "return" /\ Segmented) =>
        /\ \A i \in DOMAIN windows : windows[i].start = Seconds((i - 1) * CHUNK_SECONDS)
        /\ \A i \in 1..(Len(windows) - 1) :
              windows[i].start + windows[i].length = windows[i + 1].start
        /\ SumLengths(windows) = EffectiveDuration

\* C4: a call that returns has issued one speech-to-text call when the
\* effective duration is at most 30 s, and ceil(effective / CHUNK_SECONDS)
\* calls when it is longer.
SttCallCount ==
    (pc = "done" /\ outcome.kind = "return") =>
        Len(sttLog) = IF Segmented
                      THEN CeilDiv(EffectiveDuration, Seconds(CHUNK_SECONDS))
                      ELSE 1

\* the non-empty texts of the first n speech-to-text results, in the order of
\* the calls, one space between two of them
RECURSIVE JoinedTexts(_)
JoinedTexts(n) ==
    IF n = 0 THEN <<>>
    ELSE LET before == JoinedTexts(n - 1)
             t == sttLog[n].text
         IN  IF t = <<>> THEN before
             ELSE IF before = <<>> THEN t
             ELSE before \o <<" ">> \o t

AscendingStarts == \A i, j \in DOMAIN sttLog : i < j => sttLog[i].start < sttLog[j].start

\* C5: in the segmented path the transcript returned is the single-space join
\* of the non-empty window results in ascending start-time order; an empty
\* result adds nothing, no text is out of order or repeated.
TranscriptIsOrderedJoin ==
    (pc = "done" /\ outcome.kind = "return" /\ Segmented) =>
        /\ AscendingStarts
        /\ outcome.transcript = JoinedTexts(Len(sttLog))

\* three windows, the middle one empty: "a b"
TranscriptIsOrderedJoinWitness ==
    /\ pc = "done" /\ outcome.kind = "return" /\ Segmented
    /\ Len(sttLog) = 3
    /\ sttLog[1].text = <<"a">> /\ sttLog[2].text = <<>> /\ sttLog[3].text = <<"b">>
    /\ outcome.transcript = <<"a", " ", "b">>

\* C6: once the call has returned or raised by a normal return or by a failed
\* trim, window extraction or speech-to-text call, none of its temporary files
\* (trimmed clip, window excerpts) exists; an exit on which a deletion itself
\* failed is the case of C7.
NoTempFileAfterExit ==
    (pc = "done" /\ ~cleanupFailed) => files = {}

\* a truncated recording, trimmed and segmented, whose second speech-to-text
\* call fails: the trimmed clip and two excerpts were made and are gone
NoTempFileAfterExitWitness ==
    /\ pc = "done" /\ ~cleanupFailed
    /\ truncated /\ trimmed_path
    /\ Len(windows) = 2
    /\ outcome = Raised("stt")
    /\ files = {}

\* C7: a failure of the cleanup step never reaches the caller: the call ends
\* with the outcome it had when the cleanup began.
CleanupNeverChangesOutcome ==
    pc = "done" => outcome = pending

\* C8: a failed text-to-speech request ends the call at once, with nothing
\* written; the output file exists only after every chunk was synthesized, and
\* holds the segments in chunk order.
TtsAllOrNothing ==
    /\ ttsError =>
          /\ tpc = "done"
          /\ ~outputFile.exists
          /\ ttsLog[Len(ttsLog)].audio = Failed
          /\ \A i \in 1..(Len(ttsLog) - 1) : ttsLog[i].audio # Failed
    /\ outputFile.exists =>
          /\ Len(ttsLog) = Len(chunks)
          /\ \A i \in DOMAIN chunks :
                ttsLog[i].chunk = chunks[i] /\ ttsLog[i].audio # Failed
          /\ outputFile.audio = Flatten([i \in DOMAIN ttsLog |-> ttsLog[i].audio])
    /\ \A i \in DOMAIN ttsLog : ttsLog[i].chunk = chunks[i]

\* the second of three chunks fails: two requests were sent, nothing is written
TtsAllOrNothingWitness ==
    /\ tpc = "done" /\ ttsError
    /\ Len(chunks) = 3 /\ Len(ttsLog) = 2
    /\ ~outputFile.exists

\* C9: the normalisation returns the record with the six fields or the
\* fallback {raw_analysis: raw text}, nothing else (the raw text taken as the
\* code holds it, trimmed of surrounding whitespace).
AnalysisTwoShapes ==
    apc = "done" =>
        \/ analysis.kind = "dict" /\ analysis.keys = SixFields
        \/ analysis = Fallback(strip(content))

FirstLangIndex ==
    LET S == {i \in DOMAIN sttLog : sttLog[i].lang # ""}
    IN  IF S = {} THEN 0 ELSE CHOOSE i \in S : \A j \in S : i <= j

\* C10: the language returned is that of the earliest speech-to-text result
\* reporting one, whatever later ones report and whether or not its text was
\* empty; the caller's hint when none reports a language.
LanguageIsFirstDetected ==
    (pc = "done" /\ outcome.kind = "return") =>
        /\ AscendingStarts
        /\ outcome.language_code =
              IF FirstLangIndex = 0 THEN language_code
              ELSE sttLog[FirstLangIndex].lang

\* first window: text, no language; second: no text, a language; third:
\* another language, which is the hint
LanguageIsFirstDetectedWitness ==
    /\ pc = "done" /\ outcome.kind = "return" /\ Segmented
    /\ Len(sttLog) = 3
    /\ language_code = "hi-IN"
    /\ sttLog[1].lang = "" /\ sttLog[1].text # <<>>
    /\ sttLog[2].lang = "ta-IN" /\ sttLog[2].text = <<>>
    /\ sttLog[3].lang = "hi-IN"
    /\ outcome.language_code = "ta-IN"

\* C11: once POST /api/set-key has succeeded, every external call of a later
\* request carries the key then stored in the process environment.
CallsUseEnvironmentKey ==
    \A i \in DOMAIN apiCalls : apiCalls[i].afterSet => apiCalls[i].key = apiCalls[i].env

====
